---- MODULE Spec2Model ----
(***************************************************************************)
(* The HabitStore Durable Object of src/worker.ts: one actor per user key, *)
(* its durable storage, the requests in flight and their await points.     *)
(***************************************************************************)
EXTENDS Integers, Sequences, FiniteSets, TLC

VARIABLES
    storage,    \* per user key: <<>> (nothing under "state") or <<UserState>>
    reqs,       \* per request slot: the invocation of HabitStore.fetch, with
                \* its locals (state, item) and, once returned, its response
    now,        \* Date.now(), in ms
    nextId,     \* number of uuid() calls made so far, plus one
    ticks,      \* clock advances so far
    faults,     \* failures the storage and the AI service may still produce
    overlap,    \* history: per slot, the slots in flight when it was delivered
    epoch,      \* history: per key, steps taken by CreateHabit/LogCompletion
    stamp,      \* history: per slot, <<epoch, now>> when its response was built
    query       \* history: per slot, the userId parameter of its URL

vars ==
    <<storage, reqs, now, nextId, ticks, faults, overlap, epoch, stamp, query>>

----------------------------------------------------------------------------
(* Bounds *)

MaxReqs == 2
MaxTicks == 1
MaxFails == 1
MaxLogs == 2
MaxTarget == 2

Slots == 1..MaxReqs

----------------------------------------------------------------------------
(* Data *)

Keys == {"anonymous", "u1"}

\* The userId parameter of a request URL: <<>> when the URL has none,
\* <<value>> otherwise.
Queries == {<<>>, <<"">>, <<"u1">>}

\* faulty variant: a request without a userId joins the user u1
userIdOfFirstUser(q) == IF q = <<>> \/ q[1] = "" THEN "u1" ELSE q[1]

\* url.searchParams.get("userId") || "anonymous"
userId(q) == IF q = <<>> \/ q[1] = "" THEN "anonymous" ELSE q[1]

DayMs == 24 * 60 * 60 * 1000
WeekMs == 7 * 24 * 60 * 60 * 1000

\* new Date(ms).toISOString(): the calendar day and the time within it
toISOString(ms) == [day |-> ms \div DayMs, msOfDay |-> ms % DayMs]

\* new Date(iso).getTime()
getTime(iso) == iso.day * DayMs + iso.msOfDay

defaultState == [habits |-> <<>>, logs |-> <<>>]

uuid(n) == "id" \o ToString(n)

RECURSIVE GCD(_, _)
GCD(a, b) == IF b = 0 THEN a ELSE GCD(b, a % b)

\* a non-negative ratio num/den (den > 0) in lowest terms
Ratio(num, den) ==
    LET g == GCD(num, den) IN [num |-> num \div g, den |-> den \div g]

\* Math.min(1, c / t) for t > 0, c >= 0
MinOne(c, t) == IF c >= t THEN Ratio(1, 1) ELSE Ratio(c, t)

\* faulty variant: the logs of every habit are counted
InWindowAnyHabit(log, habit, n) == getTime(log.timestamp) >= n - WeekMs

\* faulty variant: a log exactly seven days old is left out
InWindowStrict(log, habit, n) ==
    /\ log.habitId = habit.id
    /\ getTime(log.timestamp) > n - WeekMs

InWindow(log, habit, n) ==
    /\ log.habitId = habit.id
    /\ getTime(log.timestamp) >= n - WeekMs

completedLast7Days(state, habit, n) ==
    Cardinality({j \in 1..Len(state.logs) : InWindow(state.logs[j], habit, n)})

\* faulty variant: the target is taken as weekly whatever the period
targetPerWeekAsGiven(habit) == habit.targetPerPeriod

targetPerWeek(habit) ==
    IF habit.period = "week"
    THEN habit.targetPerPeriod
    ELSE habit.targetPerPeriod * 7

completionRate(c, t) == IF t > 0 THEN MinOne(c, t) ELSE Ratio(0, 1)

computeStats(state, n) ==
    [i \in 1..Len(state.habits) |->
        LET habit == state.habits[i]
            c == completedLast7Days(state, habit, n)
            t == targetPerWeek(habit)
        IN [habitId |-> habit.id,
            name |-> habit.name,
            completedLast7Days |-> c,
            targetPerWeek |-> t,
            completionRate |-> completionRate(c, t)]]

----------------------------------------------------------------------------
(* Request payloads *)

IsSpace(c) == c \in {" ", "\t", "\n"}

RECURSIVE TrimStart(_)
TrimStart(s) ==
    IF s # <<>> /\ IsSpace(Head(s)) THEN TrimStart(Tail(s)) ELSE s

RECURSIVE TrimEnd(_)
TrimEnd(s) ==
    IF s # <<>> /\ IsSpace(s[Len(s)])
    THEN TrimEnd(SubSeq(s, 1, Len(s) - 1))
    ELSE s

\* String.prototype.trim on a string held as a sequence of characters
trim(s) == TrimEnd(TrimStart(s))

GoodHabit == [name |-> "Read", frequency |-> "daily",
              targetPerPeriod |-> 1, period |-> "day"]
WeekHabit == [name |-> "Run", frequency |-> "weekly",
              targetPerPeriod |-> 3, period |-> "week"]

\* CreateHabit payloads: two well-formed ones, then one per way of being
\* malformed (a field empty, zero, out of range or absent)
HabitBodies ==
    { GoodHabit, WeekHabit,
      [GoodHabit EXCEPT !.name = ""],
      [GoodHabit EXCEPT !.targetPerPeriod = 0],
      [GoodHabit EXCEPT !.targetPerPeriod = -1],
      [GoodHabit EXCEPT !.frequency = "monthly"],
      [GoodHabit EXCEPT !.period = "month"],
      [frequency |-> "daily", targetPerPeriod |-> 1, period |-> "day"],
      [name |-> "Read", targetPerPeriod |-> 1, period |-> "day"],
      [name |-> "Read", frequency |-> "daily", period |-> "day"],
      [name |-> "Read", frequency |-> "daily", targetPerPeriod |-> 1] }

\* the ids of the habits stored under key k, which a client has been shown
KnownIds(k) ==
    IF storage[k] = <<>> THEN {}
    ELSE {storage[k][1].habits[i].id : i \in 1..Len(storage[k][1].habits)}

\* LogCompletion payloads: no habitId, an empty one, one that matches no
\* habit, and the ids of the habits of the key
LogBodies(k) ==
    {[other |-> 0], [habitId |-> ""], [habitId |-> "nope"]}
    \cup {[habitId |-> h] : h \in KnownIds(k)}

\* Coach payloads: no message, an empty one, blanks only, a padded message
CoachBodies ==
    {[other |-> 0], [message |-> <<>>], [message |-> <<" ", "\t">>],
     [message |-> <<" ", "h", "i", " ">>]}

\* every payload of a route
AllBodies(k, op) ==
    CASE op = "state" -> {[other |-> 0]}
      [] op = "habits" -> HabitBodies
      [] op = "log" -> LogBodies(k)
      [] op = "coach" -> CoachBodies

\* the payloads that get past the checks of a route, a habitId that
\* matches nothing and a Coach call without a message
Bodies(k, op) ==
    CASE op = "state" -> {[other |-> 0]}
      [] op = "habits" -> {GoodHabit}
      [] op = "log" -> {[habitId |-> "nope"]}
                        \cup {[habitId |-> h] : h \in KnownIds(k)}
      [] op = "coach" -> {[other |-> 0], [message |-> <<" ", "h", "i", " ">>]}

Ops == {"state", "habits", "log", "coach"}

\* faulty variant: an empty name passes
InvalidHabitPayloadNameUnchecked(body) ==
    \/ ~("name" \in DOMAIN body)
    \/ ~("frequency" \in DOMAIN body) \/ body.frequency = ""
    \/ ~("targetPerPeriod" \in DOMAIN body) \/ body.targetPerPeriod = 0
    \/ ~("period" \in DOMAIN body) \/ body.period = ""

\* !body.name || !body.frequency || !body.targetPerPeriod || !body.period
InvalidHabitPayload(body) ==
    \/ ~("name" \in DOMAIN body) \/ body.name = ""
    \/ ~("frequency" \in DOMAIN body) \/ body.frequency = ""
    \/ ~("targetPerPeriod" \in DOMAIN body) \/ body.targetPerPeriod = 0
    \/ ~("period" \in DOMAIN body) \/ body.period = ""

\* !body.habitId
MissingHabitId(body) ==
    ~("habitId" \in DOMAIN body) \/ body.habitId = ""

\* faulty variant: the message is not trimmed
userMessageUntrimmed(body) ==
    IF "message" \in DOMAIN body THEN body.message ELSE <<>>

\* (body.message || "").trim()
userMessage(body) ==
    trim(IF "message" \in DOMAIN body THEN body.message ELSE <<>>)

----------------------------------------------------------------------------
(* Requests and responses *)

NewReq == [pc |-> "new", key |-> "", op |-> "", body |-> <<>>,
           state |-> defaultState, item |-> <<>>, resp |-> <<>>]

TextResponse(text, status) == [status |-> status, text |-> text]

JsonState(state, stats) ==
    [status |-> 200, state |-> state, stats |-> stats]

JsonHabit(habit, state, stats) ==
    [status |-> 200, habit |-> habit, state |-> state, stats |-> stats]

JsonLog(log, state, stats) ==
    [status |-> 200, log |-> log, state |-> state, stats |-> stats]

JsonReply(reply, stats) ==
    [status |-> 200, reply |-> reply, stats |-> stats]

\* faulty variant: the catch answers as if nothing had failed
SwallowedError == [status |-> 200, text |-> "OK"]

\* faulty variant: the exception leaves the handler
UncaughtError == [exception |-> "Error"]

InternalError == TextResponse("Internal error", 500)

----------------------------------------------------------------------------
(* The Durable Object's event delivery *)

InFlight(i) == reqs[i].pc \notin {"new", "done"}

\* faulty variant: a pending put does not hold events back
StorageWaitLoadOnly(i) == reqs[i].pc = "get"

\* faulty variant: a pending AI call holds events back as well
StorageWaitOrAI(i) == reqs[i].pc \in {"get", "initput", "save", "ai"}

\* awaiting this.state.storage.get / put
StorageWait(i) == reqs[i].pc \in {"get", "initput", "save"}

\* faulty variant: events are delivered whatever is pending
InputGateAlwaysOpen(k) == TRUE

\* The input gate of the Durable Object: while a storage call of the object
\* is pending, no other event (a new request, a resolved request.json() or
\* AI.run) is delivered to it. The awaits on request.json() and AI.run hold
\* no gate.
InputGateOpen(k) ==
    \A j \in Slots : ~(reqs[j].key = k /\ StorageWait(j))

Mutating(op) == op \in {"habits", "log"}

Bump(k, op) == IF Mutating(op) THEN [epoch EXCEPT ![k] = @ + 1] ELSE epoch

\* The request returns `resp`.
Respond(i, resp) ==
    /\ reqs' = [reqs EXCEPT ![i] = [@ EXCEPT !.pc = "done", !.resp = <<resp>>,
                                        !.state = defaultState]]
    /\ epoch' = Bump(reqs[i].key, reqs[i].op)
    /\ stamp' = [stamp EXCEPT ![i] = <<epoch'[reqs[i].key], now>>]

\* The request suspends at the await `pc`.
Suspend(i, pc, state, item) ==
    /\ reqs' = [reqs EXCEPT ![i] = [@ EXCEPT !.pc = pc, !.state = state,
                                        !.item = item]]
    /\ epoch' = Bump(reqs[i].key, reqs[i].op)
    /\ UNCHANGED stamp

----------------------------------------------------------------------------
(* HabitStore.fetch, one action per resumption of the handler *)

newHabit(body, id, n) ==
    [id |-> id, name |-> body.name, frequency |-> body.frequency,
     targetPerPeriod |-> body.targetPerPeriod, period |-> body.period,
     createdAt |-> toISOString(n)]

newLog(body, id, n) ==
    [id |-> id, habitId |-> body.habitId, timestamp |-> toISOString(n)]

\* faulty variant: the habit is put first, state.habits.unshift(newHabit)
unshiftHabit(state, habit) == [state EXCEPT !.habits = <<habit>> \o @]

\* state.habits.push(newHabit)
pushHabit(state, habit) == [state EXCEPT !.habits = Append(@, habit)]

\* faulty variant: the log replaces the logs, state.logs = [log]
resetLogs(state, log) == [state EXCEPT !.logs = <<log>>]

\* state.logs.push(log)
pushLog(state, log) == [state EXCEPT !.logs = Append(@, log)]

\* faulty variant: the lookup is not consulted
findAnyHabit(state, habitId) == TRUE

\* faulty variant: any stored habit satisfies the lookup
findFirstHabit(state, habitId) == state.habits # <<>>

\* state.habits.find((h) => h.id === body.habitId) found something
findHabit(state, habitId) ==
    \E j \in 1..Len(state.habits) : state.habits[j].id = habitId

\* A state the object reaches with the clock at 0: two CreateHabit calls and
\* one LogCompletion of the first habit, their ids from earlier uuid() calls.
SeedState ==
    LET read == newHabit(GoodHabit, "seed1", 0)
        run == newHabit(WeekHabit, "seed2", 0)
        log == newLog([habitId |-> "seed1"], "seed3", 0)
    IN pushLog(pushHabit(pushHabit(defaultState, read), run), log)

\* Nothing stored under any key, or SeedState stored under "anonymous";
\* `budget` failures to come.
Start(budget) ==
    /\ \/ storage = [k \in Keys |-> <<>>]
       \/ storage = [k \in Keys |->
                        IF k = "anonymous" THEN <<SeedState>> ELSE <<>>]
    /\ nextId = 1
    /\ reqs = [i \in Slots |-> NewReq]
    /\ now = 0
    /\ ticks = 0
    /\ faults = budget
    /\ overlap = [i \in Slots |-> {}]
    /\ epoch = [k \in Keys |-> 0]
    /\ stamp = [i \in Slots |-> <<0, 0>>]
    /\ query = [i \in Slots |-> <<>>]

\* The storage and the AI service answer every call.
Init == Start(0)

\* Up to MaxFails calls of the storage or the AI service fail.
InitFaulty == Start(MaxFails)

\* The object of key k is handed a request and the handler runs to its first
\* await: storage.get for GET /api/state, request.json() for the POST
\* routes.
Fetch(i, k, op, body) ==
    /\ reqs[i].pc = "new"
    /\ i > 1 => reqs[i - 1].pc # "new"
    /\ InputGateOpen(k)
    /\ reqs' = [reqs EXCEPT ![i] =
                  [NewReq EXCEPT !.pc = IF op = "state" THEN "get" ELSE "body",
                                 !.key = k, !.op = op, !.body = body]]
    /\ overlap' = [overlap EXCEPT ![i] = {j \in Slots : InFlight(j)}]
    /\ epoch' = Bump(k, op)
    /\ UNCHANGED <<storage, now, nextId, ticks, faults, stamp>>

\* The router: a request for an /api/ path goes to the object named by its
\* userId parameter, or by "anonymous" when it has none.
Route(i, q, op, body) ==
    /\ Fetch(i, userId(q), op, body)
    /\ query' = [query EXCEPT ![i] = q]

\* A rejected await inside the try block (request.json(), storage.get,
\* storage.put, AI.run): the catch answers 500.
Throw(i) ==
    /\ faults > 0
    /\ faults' = faults - 1
    /\ Respond(i, InternalError)

\* await request.json() resumes: the payload checks, then loadState() is
\* entered and suspends at storage.get; or the body does not parse and
\* request.json() rejects.
RequestJson(i) ==
    LET r == reqs[i] IN
    /\ r.pc = "body"
    /\ InputGateOpen(r.key)
    /\ \/ /\ CASE r.op = "habits" /\ InvalidHabitPayload(r.body) ->
                      Respond(i, TextResponse("Invalid habit payload", 400))
               [] r.op = "log" /\ MissingHabitId(r.body) ->
                      Respond(i, TextResponse("Missing habitId", 400))
               [] r.op = "coach" /\ userMessage(r.body) = <<>> ->
                      Respond(i, TextResponse("Missing message", 400))
               [] OTHER -> Suspend(i, "get", defaultState, <<>>)
          /\ UNCHANGED faults
       \/ Throw(i)
    /\ UNCHANGED <<storage, now, nextId, ticks, overlap, query>>

\* loadState() has returned `state`: the rest of the route up to its next
\* await or its return.
AfterLoad(i, state) ==
    LET r == reqs[i] IN
    CASE r.op = "state" ->
            /\ Respond(i, JsonState(state, computeStats(state, now)))
            /\ UNCHANGED nextId
      [] r.op = "habits" ->
            LET habit == newHabit(r.body, uuid(nextId), now) IN
            /\ Suspend(i, "save", pushHabit(state, habit), <<habit>>)
            /\ nextId' = nextId + 1
      [] r.op = "log" /\ ~findHabit(state, r.body.habitId) ->
            /\ Respond(i, TextResponse("Habit not found", 404))
            /\ UNCHANGED nextId
      [] r.op = "log" /\ findHabit(state, r.body.habitId) ->
            LET log == newLog(r.body, uuid(nextId), now) IN
            /\ Suspend(i, "save", pushLog(state, log), <<log>>)
            /\ nextId' = nextId + 1
      [] r.op = "coach" ->
            /\ Suspend(i, "ai", state, <<computeStats(state, now)>>)
            /\ UNCHANGED nextId

\* faulty variant: loadState() returns the fresh state without storing it
StorageGetUnsaved(i) ==
    LET r == reqs[i] IN
    /\ r.pc = "get"
    /\ AfterLoad(i, IF storage[r.key] = <<>> THEN defaultState
                                              ELSE storage[r.key][1])
    /\ UNCHANGED <<storage, now, ticks, faults, overlap, query>>

\* await this.state.storage.get("state") resumes.
StorageGet(i) ==
    LET r == reqs[i] IN
    /\ r.pc = "get"
    /\ \/ /\ storage[r.key] # <<>>
          /\ AfterLoad(i, storage[r.key][1])
          /\ UNCHANGED faults
       \/ /\ storage[r.key] = <<>>
          /\ Suspend(i, "initput", defaultState, <<>>)
          /\ UNCHANGED <<nextId, faults>>
       \/ /\ Throw(i)
          /\ UNCHANGED nextId
    /\ UNCHANGED <<storage, now, ticks, overlap, query>>

\* faulty variant: a new user starts with sample habits
freshWithSamples == SeedState

\* const fresh = defaultState() in loadState()
fresh == defaultState

\* await this.state.storage.put("state", fresh) in loadState() resumes.
StoragePutFresh(i) ==
    LET r == reqs[i] IN
    /\ r.pc = "initput"
    /\ \/ /\ storage' = [storage EXCEPT ![r.key] = <<fresh>>]
          /\ AfterLoad(i, fresh)
          /\ UNCHANGED faults
       \/ /\ Throw(i)
          /\ UNCHANGED <<storage, nextId>>
    /\ UNCHANGED <<now, ticks, overlap, query>>

\* await this.saveState(state) resumes: the stats and the response.
SaveState(i) ==
    LET r == reqs[i] IN
    /\ r.pc = "save"
    /\ \/ /\ storage' = [storage EXCEPT ![r.key] = <<r.state>>]
          /\ Respond(i, IF r.op = "habits"
                        THEN JsonHabit(r.item[1], r.state,
                                       computeStats(r.state, now))
                        ELSE JsonLog(r.item[1], r.state,
                                     computeStats(r.state, now)))
          /\ UNCHANGED faults
       \/ /\ Throw(i)
          /\ UNCHANGED storage
    /\ UNCHANGED <<now, nextId, ticks, overlap, query>>

\* await this.env.AI.run(...) resumes.
AIRun(i) ==
    LET r == reqs[i] IN
    /\ r.pc = "ai"
    /\ InputGateOpen(r.key)
    /\ \/ /\ Respond(i, JsonReply("reply", r.item[1]))
          /\ UNCHANGED faults
       \/ Throw(i)
    /\ UNCHANGED <<storage, now, nextId, ticks, overlap, query>>

\* The clock read by Date.now() advances.
Tick(d) ==
    /\ ticks < MaxTicks
    /\ ticks' = ticks + 1
    /\ now' = now + d
    /\ UNCHANGED <<storage, reqs, nextId, faults, overlap, epoch, stamp,
                   query>>

\* Requests without a userId, with the clock advancing and every storage
\* and AI call answered
Next ==
    \/ \E i \in Slots, op \in Ops :
          \E body \in Bodies(userId(<<>>), op) : Route(i, <<>>, op, body)
    \/ \E i \in Slots : RequestJson(i)
    \/ \E i \in Slots : StorageGet(i)
    \/ \E i \in Slots : StoragePutFresh(i)
    \/ \E i \in Slots : SaveState(i)
    \/ \E i \in Slots : AIRun(i)
    \/ \E d \in {WeekMs, WeekMs + 1} : Tick(d)

Spec == Init /\ [][Next]_vars

\* Every payload of every route, without a userId, with the clock at rest
\* and every storage and AI call answered
NextPayload ==
    \/ \E i \in Slots, op \in Ops :
          \E body \in AllBodies(userId(<<>>), op) : Route(i, <<>>, op, body)
    \/ \E i \in Slots : RequestJson(i)
    \/ \E i \in Slots : StorageGet(i)
    \/ \E i \in Slots : StoragePutFresh(i)
    \/ \E i \in Slots : SaveState(i)
    \/ \E i \in Slots : AIRun(i)

SpecPayload == Init /\ [][NextPayload]_vars

\* Requests without a userId or of the user u1, with the clock at rest and
\* storage and AI calls that may fail
NextKeys ==
    \/ \E i \in Slots, q \in {<<>>, <<"u1">>}, op \in Ops :
          \E body \in Bodies(userId(q), op) : Route(i, q, op, body)
    \/ \E i \in Slots : RequestJson(i)
    \/ \E i \in Slots : StorageGet(i)
    \/ \E i \in Slots : StoragePutFresh(i)
    \/ \E i \in Slots : SaveState(i)
    \/ \E i \in Slots : AIRun(i)

SpecKeys == InitFaulty /\ [][NextKeys]_vars

\* Requests with any userId parameter, with the clock at rest and every
\* storage and AI call answered
NextRouter ==
    \/ \E i \in Slots, q \in Queries, op \in Ops :
          \E body \in Bodies(userId(q), op) : Route(i, q, op, body)
    \/ \E i \in Slots : RequestJson(i)
    \/ \E i \in Slots : StorageGet(i)
    \/ \E i \in Slots : StoragePutFresh(i)
    \/ \E i \in Slots : SaveState(i)
    \/ \E i \in Slots : AIRun(i)

SpecRouter == Init /\ [][NextRouter]_vars

\* Every await is settled in the end: request.json(), the storage and the
\* AI service each return or fail, and the object is handed the settled
\* event once no storage call of its own is pending.
Settles ==
    \A i \in Slots :
        /\ WF_vars(RequestJson(i))
        /\ WF_vars(StorageGet(i))
        /\ WF_vars(StoragePutFresh(i))
        /\ WF_vars(SaveState(i))
        /\ WF_vars(AIRun(i))

\* one payload per outcome of a route that is reached through an await
LiveBodies(op) ==
    CASE op = "state" -> {[other |-> 0]}
      [] op = "habits" -> {GoodHabit}
      [] op = "log" -> {[habitId |-> "seed1"], [habitId |-> "nope"]}
      [] op = "coach" -> {[message |-> <<" ", "h", "i", " ">>]}

\* SeedState stored under "anonymous", nothing under "u1", and up to
\* MaxFails failures to come
InitLive == InitFaulty /\ storage["anonymous"] = <<SeedState>>

\* Requests of every route without a userId and Coach calls of the user u1,
\* with the clock at rest and storage and AI calls that may fail
NextLive ==
    \/ \E i \in Slots, op \in Ops :
          \E body \in LiveBodies(op) : Route(i, <<>>, op, body)
    \/ \E i \in Slots :
          \E body \in LiveBodies("coach") : Route(i, <<"u1">>, "coach", body)
    \/ \E i \in Slots : RequestJson(i)
    \/ \E i \in Slots : StorageGet(i)
    \/ \E i \in Slots : StoragePutFresh(i)
    \/ \E i \in Slots : SaveState(i)
    \/ \E i \in Slots : AIRun(i)

SpecLive == InitLive /\ [][NextLive]_vars /\ Settles

\* computeStats as a function of the stored state and of Date.now(): the
\* clock reading of the calls below
StatsNow == 2 * WeekMs

\* timestamps of stored logs: just over seven days old, exactly seven days
\* old, written at this clock reading, and written before the wall clock
\* was set back by a millisecond
StatsTimes == {StatsNow - WeekMs - 1, StatsNow - WeekMs, StatsNow, StatsNow + 1}

\* daily and weekly habits with a target of 1..MaxTarget
StatsHabitBodies ==
    {[name |-> "Read", frequency |-> IF p = "day" THEN "daily" ELSE "weekly",
      targetPerPeriod |-> t, period |-> p] :
        p \in {"day", "week"}, t \in 1..MaxTarget}

\* two habits and up to MaxLogs logs of them
StatsStates ==
    {[habits |-> <<newHabit(hs[1], "seed1", 0), newHabit(hs[2], "seed2", 0)>>,
      logs |-> [j \in DOMAIN ls |->
                   [id |-> uuid(j), habitId |-> ls[j][1],
                    timestamp |-> toISOString(ls[j][2])]]] :
        hs \in StatsHabitBodies \X StatsHabitBodies,
        ls \in UNION {[1..n -> {"seed1", "seed2"} \X StatsTimes] :
                         n \in 0..MaxLogs}}

InitStats ==
    /\ \E state \in StatsStates :
          storage = [k \in Keys |-> IF k = "anonymous" THEN <<state>> ELSE <<>>]
    /\ nextId = 1
    /\ reqs = [i \in Slots |-> NewReq]
    /\ now = StatsNow
    /\ ticks = 0
    /\ faults = 0
    /\ overlap = [i \in Slots |-> {}]
    /\ epoch = [k \in Keys |-> 0]
    /\ stamp = [i \in Slots |-> <<0, 0>>]
    /\ query = [i \in Slots |-> <<>>]

\* GetState calls on a stored state
NextStats ==
    \/ \E i \in Slots : Route(i, <<>>, "state", [other |-> 0])
    \/ \E i \in Slots : StorageGet(i)

SpecStats == InitStats /\ [][NextStats]_vars

----------------------------------------------------------------------------
(* What the claims speak of *)

\* the state a load of key k returns: nothing stored reads as the empty state
ViewOf(store, k) == IF store[k] = <<>> THEN defaultState ELSE store[k][1]

View(k) == ViewOf(storage, k)

IsPrefix(s, t) == Len(s) <= Len(t) /\ SubSeq(t, 1, Len(s)) = s

Range(s) == {s[j] : j \in 1..Len(s)}

Returned(i, status) ==
    reqs[i].pc = "done" /\ reqs[i].resp[1].status = status

\* request i had returned before request j was delivered
Before(i, j) ==
    i < j /\ reqs[j].pc # "new" /\ reqs[i].pc = "done" /\ i \notin overlap[j]

\* request i takes a step
Steps(i) == reqs'[i] # reqs[i]

LoggedOk == {i \in Slots : reqs[i].op = "log" /\ Returned(i, 200)}

----------------------------------------------------------------------------
\* C1: every LogCompletion that returned success has its log in the
\* persisted sequence exactly once, and the sequence holds exactly as many
\* new logs as LogCompletion calls have succeeded, however the calls
\* overlapped: no update is lost.
C1_NoLostLog ==
    LET logs == View("anonymous").logs IN
    /\ \A i \in LoggedOk :
          Cardinality({j \in 1..Len(logs) : logs[j] = reqs[i].resp[1].log}) = 1
    /\ Cardinality({j \in 1..Len(logs) : logs[j] \notin Range(SeedState.logs)})
          = Cardinality(LoggedOk)

\* two LogCompletion calls for one habit, in flight together, both succeeded
C1_Witness ==
    \E i, j \in LoggedOk :
        /\ i # j
        /\ j \in overlap[i]
        /\ reqs[i].body.habitId = reqs[j].body.habitId
        /\ Len(View("anonymous").logs) >= 2

----------------------------------------------------------------------------
----------------------------------------------------------------------------
\* C3: a CreateHabit or LogCompletion that leaves its save either returns
\* success with its state persisted, or returns a failure that carries no
\* habit, log or state and leaves the storage as it was.
C3_FailedSaveLeavesState ==
    [][\A i \in Slots :
          (reqs[i].pc = "save" /\ Steps(i)) =>
             LET resp == reqs'[i].resp[1] IN
             \/ /\ resp.status = 200
                /\ "state" \in DOMAIN resp
                /\ storage'[reqs[i].key] = <<resp.state>>
             \/ /\ resp.status = 500
                /\ DOMAIN resp = {"status", "text"}
                /\ storage' = storage]_vars

\* a save failed, and a GetState issued afterwards shows nothing of it
C3_Witness ==
    \E i, j \in Slots :
        /\ reqs[i].op \in {"habits", "log"}
        /\ Returned(i, 500)
        /\ reqs[i].item # <<>>
        /\ Before(i, j)
        /\ reqs[j].op = "state"
        /\ Returned(j, 200)
        /\ reqs[i].item[1] \notin Range(reqs[j].resp[1].state.habits)
        /\ reqs[i].item[1] \notin Range(reqs[j].resp[1].state.logs)

----------------------------------------------------------------------------
HabitFields == {"name", "frequency", "targetPerPeriod", "period"}

\* C4 as stated: CreateHabit succeeds only for a positive targetPerPeriod, a
\* frequency of daily or weekly and a period of day or week, so every
\* persisted habit has such fields.
C4_OnlyWellTypedHabits ==
    /\ \A i \in Slots :
          (reqs[i].op = "habits" /\ Returned(i, 200)) =>
              /\ reqs[i].body.targetPerPeriod > 0
              /\ reqs[i].body.frequency \in {"daily", "weekly"}
              /\ reqs[i].body.period \in {"day", "week"}
    /\ \A k \in Keys : \A h \in Range(View(k).habits) :
          /\ h.targetPerPeriod > 0
          /\ h.frequency \in {"daily", "weekly"}
          /\ h.period \in {"day", "week"}

----------------------------------------------------------------------------
\* a payload with an empty name or without one of the four fields
Incomplete(body) ==
    \/ \E f \in HabitFields : f \notin DOMAIN body
    \/ body.name = ""

\* C5: the one step of a CreateHabit whose payload has an empty name or
\* lacks a field returns the validation error and leaves the storage as it
\* was.
C5_IncompleteRejected ==
    [][\A i \in Slots :
          (reqs[i].op = "habits" /\ Incomplete(reqs[i].body) /\ Steps(i)) =>
              /\ reqs'[i].pc = "done"
              /\ reqs'[i].resp[1].status = 400
              /\ DOMAIN reqs'[i].resp[1] = {"status", "text"}
              /\ storage' = storage]_vars

\* a payload without a field was rejected, and a GetState issued afterwards
\* returns the habits that were there before
C5_Witness ==
    \E i, j \in Slots :
        /\ reqs[i].op = "habits"
        /\ \E f \in HabitFields : f \notin DOMAIN reqs[i].body
        /\ Returned(i, 400)
        /\ Before(i, j)
        /\ reqs[j].op = "state"
        /\ Returned(j, 200)
        /\ reqs[j].resp[1].state = SeedState

----------------------------------------------------------------------------
\* C6: the step in which a CreateHabit returns success has saved the old
\* habits followed by one habit with the supplied fields and an id no
\* stored habit or log has, has left the logs alone, and returns that habit,
\* the saved state and, last in the stats, the new habit with no completion.
C6_CreateAppendsOne ==
    [][\A i \in Slots :
          (/\ reqs[i].op = "habits" /\ reqs[i].pc = "save" /\ Steps(i)
           /\ reqs'[i].resp[1].status = 200) =>
              LET k == reqs[i].key
                  b == reqs[i].body
                  old == View(k)
                  new == ViewOf(storage', k)
                  resp == reqs'[i].resp[1]
                  n == Len(new.habits)
              IN
              /\ storage'[k] # <<>>
              /\ n = Len(old.habits) + 1
              /\ SubSeq(new.habits, 1, n - 1) = old.habits
              /\ new.habits[n].name = b.name
              /\ new.habits[n].frequency = b.frequency
              /\ new.habits[n].targetPerPeriod = b.targetPerPeriod
              /\ new.habits[n].period = b.period
              /\ \A h \in Range(old.habits) : h.id # new.habits[n].id
              /\ \A l \in Range(old.logs) : l.id # new.habits[n].id
              /\ new.logs = old.logs
              /\ resp.habit = new.habits[n]
              /\ resp.state = new
              /\ Len(resp.stats) = n
              /\ resp.stats[n].habitId = new.habits[n].id
              /\ resp.stats[n].completedLast7Days = 0]_vars

\* a habit was created after the habits and the log already stored
C6_Witness ==
    \E i \in Slots :
        /\ reqs[i].op = "habits"
        /\ Returned(i, 200)
        /\ Len(reqs[i].resp[1].state.habits) >= 3
        /\ reqs[i].resp[1].state.logs # <<>>
        /\ View(reqs[i].key) = reqs[i].resp[1].state

----------------------------------------------------------------------------
NoHabitId(body) == "habitId" \notin DOMAIN body \/ body.habitId = ""

\* C7: a LogCompletion without a habitId returns the validation error in its
\* one step; one whose habitId matches no stored habit returns not-found
\* unless a store call fails; neither changes the stored habits or logs.
C7_BadLogRejected ==
    [][\A i \in Slots :
          (reqs[i].op = "log" /\ Steps(i)) =>
              LET k == reqs[i].key
                  b == reqs[i].body
              IN
              /\ NoHabitId(b) =>
                    /\ reqs'[i].pc = "done"
                    /\ reqs'[i].resp[1] = [status |-> 400,
                                           text |-> "Missing habitId"]
                    /\ storage' = storage
              /\ (/\ ~NoHabitId(b)
                  /\ \A h \in Range(View(k).habits) : h.id # b.habitId) =>
                    /\ ViewOf(storage', k) = View(k)
                    /\ (reqs'[i].pc = "done" /\ faults' = faults) =>
                          reqs'[i].resp[1] = [status |-> 404,
                                              text |-> "Habit not found"]]_vars

\* one LogCompletion was refused for its missing habitId and one for a
\* habitId that matches none of the stored habits
C7_Witness ==
    \E i, j \in Slots :
        /\ reqs[i].op = "log" /\ NoHabitId(reqs[i].body) /\ Returned(i, 400)
        /\ reqs[j].op = "log" /\ ~NoHabitId(reqs[j].body) /\ Returned(j, 404)
        /\ View(reqs[j].key) = SeedState

----------------------------------------------------------------------------
\* the completedLast7Days a GetState at clock n reports for the h-th habit
CountAt(state, h, n) == computeStats(state, n)[h].completedLast7Days

----------------------------------------------------------------------------
\* two GetState calls that returned with no step of a CreateHabit or
\* LogCompletion on their key between the two responses
GetStatePairs ==
    {p \in Slots \X Slots :
        /\ p[1] # p[2]
        /\ reqs[p[1]].op = "state" /\ Returned(p[1], 200)
        /\ reqs[p[2]].op = "state" /\ Returned(p[2], 200)
        /\ reqs[p[1]].key = reqs[p[2]].key
        /\ stamp[p[1]][1] = stamp[p[2]][1]}

\* C9 as stated: two GetState calls with no mutation between them return
\* identical state and identical stats.
C9_GetStateIdempotent ==
    \A p \in GetStatePairs : reqs[p[1]].resp[1] = reqs[p[2]].resp[1]

\* the same logs are at most seven days old at the clock readings m and n
SameWindow(state, m, n) ==
    \A l \in Range(state.logs) :
        (getTime(l.timestamp) >= m - WeekMs)
            <=> (getTime(l.timestamp) >= n - WeekMs)

\* C9 amended: two GetState calls with no mutation between them return
\* identical state, and identical stats when the same logs are at most
\* seven days old at both calls.
C9_IdempotentInWindow ==
    \A p \in GetStatePairs :
        /\ reqs[p[1]].resp[1].state = reqs[p[2]].resp[1].state
        /\ SameWindow(reqs[p[1]].resp[1].state, stamp[p[1]][2], stamp[p[2]][2])
              => reqs[p[1]].resp[1].stats = reqs[p[2]].resp[1].stats

\* two GetState calls seven days apart, the one log counted by both
C9_Witness ==
    \E p \in GetStatePairs :
        /\ stamp[p[1]][2] # stamp[p[2]][2]
        /\ reqs[p[1]].resp[1].state.logs # <<>>
        /\ reqs[p[1]].resp[1].stats[1].completedLast7Days = 1
        /\ reqs[p[1]].resp[1] = reqs[p[2]].resp[1]

----------------------------------------------------------------------------
\* C10: in every step, for every key, the habits and the logs stored before
\* the step are prefixes of those stored after it.
C10_AppendOnly ==
    [][\A k \in Keys :
          /\ IsPrefix(View(k).habits, ViewOf(storage', k).habits)
          /\ IsPrefix(View(k).logs, ViewOf(storage', k).logs)]_vars

\* a CreateHabit and a LogCompletion in flight together have both been
\* saved after the habits and the log already stored
C10_Witness ==
    \E i, j \in Slots :
        /\ reqs[i].op = "habits" /\ Returned(i, 200)
        /\ reqs[j].op = "log" /\ Returned(j, 200)
        /\ i \in overlap[j] \/ j \in overlap[i]
        /\ Len(View("anonymous").habits) = 3
        /\ Len(View("anonymous").logs) = 2

----------------------------------------------------------------------------
HabitIds(state) == {h.id : h \in Range(state.habits)}

\* C11: in the state stored under every key, and in every state a request
\* is about to save, the habitId of every log is the id of a habit of that
\* same state.
C11_LogsReferToHabits ==
    /\ \A k \in Keys :
          \A l \in Range(View(k).logs) : l.habitId \in HabitIds(View(k))
    /\ \A i \in Slots :
          reqs[i].pc = "save" =>
             \A l \in Range(reqs[i].state.logs) :
                l.habitId \in HabitIds(reqs[i].state)

\* a LogCompletion of a stored habit has its log stored, and a
\* LogCompletion naming no stored habit has been turned away
C11_Witness ==
    /\ \E i \in LoggedOk :
          /\ reqs[i].resp[1].log \in Range(View("anonymous").logs)
          /\ reqs[i].body.habitId \in HabitIds(View("anonymous"))
    /\ \E i \in Slots :
          /\ reqs[i].op = "log"
          /\ reqs[i].body = [habitId |-> "nope"]
          /\ Returned(i, 404)

----------------------------------------------------------------------------
Delivered(i) == reqs[i].pc # "new"

\* what the successful CreateHabit (op = "habits") or LogCompletion
\* (op = "log") calls on key k have saved
SavedBy(k, op) ==
    {reqs[i].item[1] :
        i \in {j \in Slots : reqs[j].key = k /\ reqs[j].op = op
                                /\ Returned(j, 200)}}

Stored(k) == IF k = "anonymous" THEN SeedState ELSE defaultState

\* C12: a step of a request on key k leaves the storage of every other key
\* as it was; the habits and logs stored under a key are those it started
\* with and those saved by the successful calls on that key, each once;
\* requests with the same userId parameter are on the same key, and a
\* request without one is on the key "anonymous".
C12_KeysIndependent ==
    /\ [][\A i \in Slots :
             Steps(i) =>
                \A k \in Keys \ {reqs'[i].key} : storage'[k] = storage[k]]_vars
    /\ [](\A k \in Keys :
             LET habits == View(k).habits
                 logs == View(k).logs
             IN
             /\ Range(habits) \ Range(Stored(k).habits) = SavedBy(k, "habits")
             /\ Range(logs) \ Range(Stored(k).logs) = SavedBy(k, "log")
             /\ Len(habits) = Cardinality(Range(habits))
             /\ Len(logs) = Cardinality(Range(logs)))
    /\ [](\A i, j \in Slots :
             /\ (Delivered(i) /\ query[i] = <<>>) => reqs[i].key = "anonymous"
             /\ (Delivered(i) /\ Delivered(j) /\ query[i] = query[j])
                   => reqs[i].key = reqs[j].key)

\* a CreateHabit of the user u1 and one without a userId, in flight
\* together, have each been saved under their own key
C12_Witness ==
    \E i, j \in Slots :
        /\ query[i] = <<"u1">> /\ query[j] = <<>>
        /\ reqs[i].op = "habits" /\ Returned(i, 200)
        /\ reqs[j].op = "habits" /\ Returned(j, 200)
        /\ i \in overlap[j] \/ j \in overlap[i]
        /\ Range(View("u1").habits) = {reqs[i].item[1]}
        /\ reqs[j].item[1] \in Range(View("anonymous").habits)
        /\ reqs[i].item[1] \notin Range(View("anonymous").habits)

----------------------------------------------------------------------------
\* a Coach payload without a message, or with one made of blanks only
BlankMessage(body) ==
    \/ "message" \notin DOMAIN body
    \/ \A c \in Range(body.message) : c \in {" ", "\t", "\n"}

\* C13: a Coach call whose message is missing, empty or made of blanks only
\* never loads the state and never waits on the AI service, and once it
\* has returned its response is the validation error.
C13_BlankMessageRejected ==
    \A i \in Slots :
        (reqs[i].op = "coach" /\ BlankMessage(reqs[i].body)) =>
            /\ reqs[i].pc \in {"body", "done"}
            /\ reqs[i].pc = "done" =>
                  reqs[i].resp[1] = TextResponse("Missing message", 400)

\* a Coach call with blanks only has been turned away while one with a
\* padded message waits on the AI service
C13_Witness ==
    \E i, j \in Slots :
        /\ reqs[i].op = "coach"
        /\ reqs[i].body = [message |-> <<" ", "\t">>]
        /\ Returned(i, 400)
        /\ reqs[j].op = "coach"
        /\ ~BlankMessage(reqs[j].body)
        /\ reqs[j].pc = "ai"

----------------------------------------------------------------------------
\* C14: no step of a Coach call, from its delivery to its reply, its
\* validation error or its failure, changes the habits or the logs stored
\* under any key.
C14_CoachKeepsState ==
    [][\A i \in Slots :
          (reqs'[i].op = "coach" /\ Steps(i)) =>
              \A k \in Keys :
                 /\ ViewOf(storage', k).habits = View(k).habits
                 /\ ViewOf(storage', k).logs = View(k).logs]_vars

\* a Coach call on stored habits has failed at the AI service, another has
\* been turned away for its message, and the habits and the log are stored
\* as before
C14_Witness ==
    \E i, j \in Slots :
        /\ reqs[i].op = "coach" /\ Returned(i, 500)
        /\ reqs[i].item # <<>>
        /\ reqs[j].op = "coach" /\ Returned(j, 400)
        /\ reqs[i].key = "anonymous" /\ reqs[j].key = "anonymous"
        /\ storage["anonymous"] = <<SeedState>>

----------------------------------------------------------------------------
\* C15: a request whose request.json(), storage.get, storage.put or AI.run
\* fails returns in that step the response 500 "Internal error", which
\* carries no reply, habit, log or state; and whatever a request returns is
\* a response with one of the statuses 200, 400, 404 and 500.
C15_FailuresCaught ==
    /\ [][\A i \in Slots :
             (Steps(i) /\ faults' # faults) =>
                /\ reqs[i].pc \in {"body", "get", "initput", "save", "ai"}
                /\ reqs'[i].pc = "done"
                /\ DOMAIN reqs'[i].resp[1] = {"status", "text"}
                /\ reqs'[i].resp[1].status = 500
                /\ reqs'[i].resp[1].text = "Internal error"]_vars
    /\ [](\A i \in Slots :
             reqs[i].pc = "done" =>
                /\ "status" \in DOMAIN reqs[i].resp[1]
                /\ reqs[i].resp[1].status \in {200, 400, 404, 500})

\* a Coach call failed at the AI service and was answered 500, and a
\* CreateHabit delivered to the same object afterwards succeeded
C15_Witness ==
    \E i, j \in Slots :
        /\ reqs[i].op = "coach"
        /\ reqs[i].item # <<>>
        /\ reqs[i].resp = <<InternalError>>
        /\ Before(i, j)
        /\ reqs[j].key = reqs[i].key
        /\ reqs[j].op = "habits"
        /\ Returned(j, 200)

----------------------------------------------------------------------------
\* the GetState calls that have returned
GotState == {i \in Slots : reqs[i].op = "state" /\ Returned(i, 200)}

\* C16 as stated: for every habit, completedLast7Days is the number of the
\* state's logs of that habit whose timestamp t has now - 7 days <= t <= now.
C16_ClosedWindow ==
    \A i \in GotState :
        LET state == reqs[i].resp[1].state
            stats == reqs[i].resp[1].stats
            n == stamp[i][2]
        IN \A h \in 1..Len(state.habits) :
              stats[h].completedLast7Days =
                 Cardinality({j \in 1..Len(state.logs) :
                     /\ state.logs[j].habitId = state.habits[h].id
                     /\ getTime(state.logs[j].timestamp) >= n - WeekMs
                     /\ getTime(state.logs[j].timestamp) <= n})

----------------------------------------------------------------------------
\* C17: in every GetState response, the stat of a habit with period week has
\* targetPerWeek = targetPerPeriod and the stat of a habit with period day
\* has targetPerWeek = targetPerPeriod * 7.
C17_TargetPerWeek ==
    \A i \in GotState :
        LET state == reqs[i].resp[1].state
            stats == reqs[i].resp[1].stats
        IN \A h \in 1..Len(state.habits) :
              /\ stats[h].habitId = state.habits[h].id
              /\ state.habits[h].period = "week" =>
                    stats[h].targetPerWeek = state.habits[h].targetPerPeriod
              /\ state.habits[h].period = "day" =>
                    stats[h].targetPerWeek = state.habits[h].targetPerPeriod * 7

\* a daily habit with target 1 is reported with 7 a week, a weekly habit
\* with target 2 with 2 a week
C17_Witness ==
    \E i \in GotState :
        LET state == reqs[i].resp[1].state
            stats == reqs[i].resp[1].stats
        IN /\ state.habits[1].period = "day"
           /\ state.habits[1].targetPerPeriod = 1
           /\ stats[1].targetPerWeek = 7
           /\ state.habits[2].period = "week"
           /\ state.habits[2].targetPerPeriod = 2
           /\ stats[2].targetPerWeek = 2

----------------------------------------------------------------------------
\* the responses that carry stats
WithStats ==
    {i \in Slots : reqs[i].pc = "done" /\ "stats" \in DOMAIN reqs[i].resp[1]}

\* the ratio r is the quotient c / t, for t # 0
IsQuotient(r, c, t) == r.num * t = c * r.den

\* C18 as stated: every stat has 0 <= completionRate <= 1; completionRate is
\* 0 when targetPerWeek is 0, is 1 when completedLast7Days >= targetPerWeek
\* > 0, and is completedLast7Days / targetPerWeek otherwise.
C18_CompletionRate ==
    \A i \in WithStats :
        LET stats == reqs[i].resp[1].stats IN
        \A h \in DOMAIN stats :
            LET c == stats[h].completedLast7Days
                t == stats[h].targetPerWeek
                r == stats[h].completionRate
            IN /\ r.den > 0 /\ 0 <= r.num /\ r.num <= r.den
               /\ CASE t = 0 -> r.num = 0
                    [] c >= t /\ t > 0 -> r.num = r.den
                    [] OTHER -> IsQuotient(r, c, t)

----------------------------------------------------------------------------
Empty == [habits |-> <<>>, logs |-> <<>>]

\* what a route does next with the state `state` it has loaded
ContinuesWith(i, state) ==
    CASE reqs[i].op = "state" ->
            /\ reqs'[i].resp[1].status = 200
            /\ reqs'[i].resp[1].state = state
            /\ reqs'[i].resp[1].stats = <<>>
      [] reqs[i].op = "habits" ->
            /\ reqs'[i].pc = "save"
            /\ reqs'[i].state = [state EXCEPT !.habits = <<reqs'[i].item[1]>>]
      [] reqs[i].op = "log" -> reqs'[i].resp[1].status = 404
      [] reqs[i].op = "coach" ->
            /\ reqs'[i].pc = "ai"
            /\ reqs'[i].item = <<<<>>>>

\* C19: a load that finds nothing stored under its key stores the empty
\* state before the route goes on, and the route goes on with the empty
\* state; a load that finds the empty state stored goes on with it as well;
\* GetState on it returns no stats.
C19_LazyEmptyState ==
    [][\A i \in Slots :
          Steps(i) =>
             LET k == reqs[i].key IN
             /\ (reqs[i].pc = "get" /\ storage[k] = <<>>) =>
                   /\ reqs'[i].pc = "initput"
                   /\ storage' = storage
             /\ reqs[i].pc = "initput" =>
                   /\ storage[k] = <<>>
                   /\ storage' = [storage EXCEPT ![k] = <<Empty>>]
                   /\ ContinuesWith(i, Empty)
             /\ (reqs[i].pc = "get" /\ storage[k] = <<Empty>>) =>
                   /\ storage' = storage
                   /\ ContinuesWith(i, Empty)]_vars

\* the first GetState of the user u1 and a second one after it both
\* returned the empty state, which is stored
C19_Witness ==
    \E i, j \in Slots :
        /\ reqs[i].key = "u1" /\ reqs[j].key = "u1"
        /\ Before(i, j)
        /\ reqs[i].resp = <<JsonState(Empty, <<>>)>>
        /\ reqs[j].resp = <<JsonState(Empty, <<>>)>>
        /\ storage["u1"] = <<Empty>>

----------------------------------------------------------------------------
\* C20: every request delivered to an object returns a response in the end,
\* whatever other requests on its key or on another key do.
C20_EveryRequestReturns ==
    \A i \in Slots : Delivered(i) ~> (reqs[i].pc = "done")

\* a Coach call that reached the AI service and a CreateHabit on the same
\* key, in flight together, have both returned, and so has every other
\* request
C20_Witness ==
    /\ \A i \in Slots : reqs[i].pc = "done"
    /\ \E i, j \in Slots :
          /\ reqs[i].key = reqs[j].key
          /\ reqs[i].op = "coach" /\ reqs[j].op = "habits"
          /\ i \in overlap[j] \/ j \in overlap[i]
          /\ reqs[i].item # <<>>

====
